---- MODULE Spec2Model ----
(***************************************************************************)
(* Model of packages/lib/core/src/agent/request.ts: the chat-completion    *)
(* request pipeline (requestChatCompletions -> mapResponseToAnswer ->      *)
(* streamHandler) with its sanitizer, response classifier and extractor    *)
(* defaults.                                                               *)
(*                                                                         *)
(* A text is a sequence of one-character strings, so that the regular      *)
(* expressions of stripThinkingContent are matched character by character. *)
(* An optional value (undefined / null in the source) is a sequence of     *)
(* length 0 (absent) or 1 (present).                                       *)
(***************************************************************************)
EXTENDS Integers, Sequences, FiniteSets, TLC

\* ------------------------------------------------------------------ bounds

\* Longest frame sequence a stream delivers to a call of streamHandler.
MaxFrames == 4

\* Longest frame sequence a stream delivers within requestChatCompletions.
MaxCallFrames == 2

\* Largest reading of the clock (Date.now()), in interval units.
MaxTime == 3

\* Longest frame sequence of the throttling specification.
MaxThrottleFrames == 10

\* Most calls of fixOpenAICompatibleOptions on one options argument.
MaxResolves == 4

\* Number of calls of requestChatCompletions running at the same time.
NumCalls == 2

\* Most pieces (characters, tags, halves of a tag) of a text handed to
\* stripThinkingContent on its own.
MaxPieces == 4

\* Most successive applications of stripThinkingContent to one text.
MaxPasses == 2

\* Most frames of a frame sequence fixed before the handler starts.
MaxStreamLen == 3

\* ------------------------------------------------------------------- texts

Rep(c, n) == [i \in 1..n |-> c]

Min(S) == CHOOSE m \in S : \A n \in S : m <= n

OpenThink == <<"<", "t", "h", "i", "n", "k", ">">>

OpenThinking == <<"<", "t", "h", "i", "n", "k", "i", "n", "g", ">">>

CloseThink == <<"<", "/", "t", "h", "i", "n", "k", ">">>

CloseThinking == <<"<", "/", "t", "h", "i", "n", "k", "i", "n", "g", ">">>

\* The characters String.prototype.trimStart removes (those the model uses).
IsWhitespace(c) == c \in {" ", "\n", "\t"}

MatchesAt(t, i, pat) ==
    /\ i >= 1
    /\ i + Len(pat) - 1 <= Len(t)
    /\ SubSeq(t, i, i + Len(pat) - 1) = pat

\* Length of the match of /<think(?:ing)?>/ anchored at i, 0 when none.
OpenLenAt(t, i) ==
    IF MatchesAt(t, i, OpenThink) THEN Len(OpenThink)
    ELSE IF MatchesAt(t, i, OpenThinking) THEN Len(OpenThinking)
    ELSE 0

\* Length of the match of /<\/think(?:ing)?>/ anchored at i, 0 when none.
CloseLenAt(t, i) ==
    IF MatchesAt(t, i, CloseThink) THEN Len(CloseThink)
    ELSE IF MatchesAt(t, i, CloseThinking) THEN Len(CloseThinking)
    ELSE 0

\* Index of the first opening tag starting at or after from, 0 when none.
FirstOpen(t, from) ==
    LET S == {i \in from..Len(t) : t[i] = "<" /\ OpenLenAt(t, i) > 0}
    IN  IF S = {} THEN 0 ELSE Min(S)

\* Index of the first closing tag starting at or after from, 0 when none.
FirstClose(t, from) ==
    LET S == {i \in from..Len(t) : t[i] = "<" /\ CloseLenAt(t, i) > 0}
    IN  IF S = {} THEN 0 ELSE Min(S)

\* text.replace(/<think(?:ing)?>[\s\S]*?<\/think(?:ing)?>/g, '') on the part
\* of t from index from on: the leftmost opening tag, the nearest closing tag
\* after it (non-greedy), and the scan resumes after the match.
RECURSIVE RemoveClosedFrom(_, _)
RemoveClosedFrom(t, from) ==
    LET o == FirstOpen(t, from)
    IN  IF o = 0 THEN SubSeq(t, from, Len(t))
        ELSE LET c == FirstClose(t, o + OpenLenAt(t, o))
             IN  IF c = 0 THEN SubSeq(t, from, Len(t))
                 ELSE SubSeq(t, from, o - 1)
                        \o RemoveClosedFrom(t, c + CloseLenAt(t, c))

RemoveClosed(t) == RemoveClosedFrom(t, 1)

\* A truncation that leaves an unclosed opening tag and what follows it.
TruncateNowhere(t) == t

\* text.match(/<think(?:ing)?>/) and text.substring(0, match.index).
TruncateAtOpen(t) ==
    LET o == FirstOpen(t, 1)
    IN  IF o = 0 THEN t ELSE SubSeq(t, 1, o - 1)

TrimStart(t) ==
    LET S == {i \in 1..Len(t) : ~IsWhitespace(t[i])}
    IN  IF S = {} THEN <<>> ELSE SubSeq(t, Min(S), Len(t))

\* A sanitizer without the truncation at an unclosed opening tag.
stripClosedBlocksOnly(text) == TrimStart(RemoveClosed(text))

\* A sanitizer that truncates at the first opening tag before it removes the
\* closed blocks.
stripTruncatingFirst(text) == TrimStart(RemoveClosed(TruncateAtOpen(text)))

stripThinkingContent(text) == TrimStart(TruncateAtOpen(RemoveClosed(text)))

\* ----------------------------------------------------- text of the messages

\* The characters of the failure messages a stream or a sink raises.
Chars(msg) ==
    CASE msg = "m" -> <<"m">>
      [] msg = "<think>" -> OpenThink
      [] msg = "</think>" -> CloseThink
      [] OTHER -> <<"?">>

\* `\nError: ${message}`
ErrorSuffix(msg) ==
    <<"\n", "E", "r", "r", "o", "r", ":", " ">> \o Chars(msg)

\* `${displayText}\n...`
Ellipsis(t) == t \o <<"\n", ".", ".", ".">>

\* -------------------------------------------------------------- classifier

\* A content-type header value is a sequence of tokens (media types and
\* parameters); the header is absent (<<>>) or present (<<value>>).
\* toLowerCase maps token by token, includes is the presence of a token.
ToLower(tok) ==
    CASE tok = "TEXT/EVENT-STREAM" -> "text/event-stream"
      [] tok = "Application/JSON" -> "application/json"
      [] OTHER -> tok

ToLowerCase(value) == [i \in 1..Len(value) |-> ToLower(value[i])]

Includes(value, type) == \E i \in 1..Len(value) : value[i] = type

isJsonResponse(resp) ==
    IF resp.contentType = <<>> THEN FALSE
    ELSE Includes(ToLowerCase(resp.contentType[1]), "application/json")

isEventStreamResponse(resp) ==
    LET content == IF resp.contentType = <<>> THEN <<>>
                   ELSE ToLowerCase(resp.contentType[1])
    IN  \E type \in {"application/stream+json", "text/event-stream"} :
            Includes(content, type)

\* ------------------------------------------------- program constants

\* let updateStep = 50
InitialUpdateStep == 50

\* updateStep += 20
UpdateStepGrowth == 20

\* ---------------------------------------------------------- JSON objects

\* A decoded frame or a parsed body, every property optional:
\*   choices : an array of choices, each with optional delta.content and
\*             message.content (the OpenAI shape);
\*   error   : an object with an optional message;
\*   text, detail : the fields a caller-supplied extractor set reads (a
\*             provider with a flat envelope).
\* Contents are texts, messages are strings.
NoObj == [choices |-> <<>>, error |-> <<>>, text |-> <<>>, detail |-> <<>>]

NoChoice == [delta |-> <<>>, message |-> <<>>]

DeltaChoice(t) == [NoChoice EXCEPT !.delta = <<[content |-> <<t>>]>>]

MessageChoice(t) == [NoChoice EXCEPT !.message = <<[content |-> <<t>>]>>]

WithChoice(obj, c) == [obj EXCEPT !.choices = << <<c>> >>]

WithError(obj, m) == [obj EXCEPT !.error = <<[message |-> <<m>>]>>]

\* What a call of an extractor gives: a value, nothing (undefined / null), or
\* a TypeError thrown on the way.
Absent == [thrown |-> FALSE, val |-> <<>>]

Val(v) == [thrown |-> FALSE, val |-> <<v>>]

Thrown == [thrown |-> TRUE, val |-> <<>>]

\* JavaScript truthiness of an extractor's value: present and not ''. A
\* content is a text, a message is a string.
TruthyText(r) == ~r.thrown /\ r.val # <<>> /\ r.val[1] # <<>>

TruthyString(r) == ~r.thrown /\ r.val # <<>> /\ r.val[1] # ""

\* d?.choices?.at(0)?.delta?.content
DefaultContentExtractor(d) ==
    IF d.choices = <<>> THEN Absent
    ELSE IF d.choices[1] = <<>> THEN Absent
    ELSE LET c == d.choices[1][1]
         IN  IF c.delta = <<>> THEN Absent
             ELSE IF c.delta[1].content = <<>> THEN Absent
             ELSE Val(c.delta[1].content[1])

\* d.choices?.at(0)?.message.content : message is read without ?.
DefaultFullContentExtractor(d) ==
    IF d.choices = <<>> THEN Absent
    ELSE IF d.choices[1] = <<>> THEN Absent
    ELSE LET c == d.choices[1][1]
         IN  IF c.message = <<>> THEN Thrown
             ELSE IF c.message[1].content = <<>> THEN Absent
             ELSE Val(c.message[1].content[1])

\* d.error?.message
DefaultErrorExtractor(d) ==
    IF d.error = <<>> THEN Absent
    ELSE IF d.error[1].message = <<>> THEN Absent
    ELSE Val(d.error[1].message[1])

\* The caller-supplied extractors of the model: d => d.text and d => d.detail.
CustomTextExtractor(d) == IF d.text = <<>> THEN Absent ELSE Val(d.text[1])

CustomErrorExtractor(d) == IF d.detail = <<>> THEN Absent ELSE Val(d.detail[1])

\* A caller-supplied delta extractor that reads the path without optional
\* chaining, d => d.choices[0].delta.content: a TypeError where choices, the
\* first choice or its delta is missing.
StrictContentExtractor(d) ==
    IF d.choices = <<>> THEN Thrown
    ELSE IF d.choices[1] = <<>> THEN Thrown
    ELSE LET c == d.choices[1][1]
         IN  IF c.delta = <<>> THEN Thrown
             ELSE IF c.delta[1].content = <<>> THEN Absent
             ELSE Val(c.delta[1].content[1])

\* ------------------------------------------------------ extractor options

\* SseChatCompatibleOptions: each field names the function it holds, "absent"
\* when the caller left it out. The options argument itself may be null (<<>>).
NoOptions ==
    [streamBuilder |-> "absent", contentExtractor |-> "absent",
     fullContentExtractor |-> "absent", errorExtractor |-> "absent"]

\* A defaulting that installs the built-in function whatever the caller gave.
OrDefaultAlways(f) == "default"

\* options.f = options.f || function ... : a function is truthy, a field left
\* out is undefined.
OrDefault(f) == IF f = "absent" THEN "default" ELSE f

fixOpenAICompatibleOptions(options) ==
    LET o == IF options = <<>> THEN NoOptions ELSE options[1]
    IN  [streamBuilder |-> OrDefault(o.streamBuilder),
         contentExtractor |-> OrDefault(o.contentExtractor),
         fullContentExtractor |-> OrDefault(o.fullContentExtractor),
         errorExtractor |-> OrDefault(o.errorExtractor)]

\* The caller's object after fixOpenAICompatibleOptions returned o: the
\* defaults are assigned to the fields of the object passed in (lines 25-36),
\* which is the object returned; only for null is a new object made (line 24).
WrittenBack(arg, o) == IF arg = <<>> THEN <<>> ELSE <<o>>

\* options.streamBuilder?.(resp, controller): whether a stream comes back. The
\* default (new Stream(r, c)) always gives one; a caller's builder may not.
BuildsStream(builder) == builder \in {"default", "custom"}

ContentExtract(f, d) ==
    IF f = "default" THEN DefaultContentExtractor(d)
    ELSE IF f = "strict" THEN StrictContentExtractor(d)
    ELSE CustomTextExtractor(d)

FullContentExtract(f, d) ==
    IF f = "default" THEN DefaultFullContentExtractor(d) ELSE CustomTextExtractor(d)

ErrorExtract(f, d) ==
    IF f = "default" THEN DefaultErrorExtractor(d) ELSE CustomErrorExtractor(d)

\* ------------------------------------------------------------------ state

VARIABLES
    timeoutCfg,     \* ENV.CHAT_COMPLETE_API_TIMEOUT
    minInterval,    \* ENV.TELEGRAM_MIN_STREAM_INTERVAL
    hasSink,        \* onStream was supplied
    options,        \* the caller's options argument as passed (<<>> is null)
    overrides,      \* the object that argument refers to, as it is now
    resolutions,    \* calls of fixOpenAICompatibleOptions on that argument
    pc,             \* where the call is: start, fetch, json, pull, sink, done
    aborted,        \* controller.signal.aborted
    timer,          \* the setTimeout timer: none, pending, fired, cleared
    elapsed,        \* the timeout duration has passed since the timer was set
    fetch,          \* the HTTP call: idle, inflight, resolved, rejected
    resp,           \* the response fetch resolved with (<<>> before)
    opts,           \* the local options after fixOpenAICompatibleOptions
    mapperCalled,   \* mapResponseToAnswer was invoked
    delegated,      \* streamHandler was invoked
    bodyRead,       \* resp.json() was invoked
    parsed,         \* what resp.json() resolved with (<<>> before)
    extractorCalls, \* the extractors applied to the parsed body, in order
    outcome,        \* how the call ended: none, returned (answer), failed (error)
    contentExtractor, \* the extractor handed to streamHandler
    contentFull,
    lengthDelta,
    updateStep,
    lastUpdateTime,
    lastStreamText,
    now,            \* the latest reading of Date.now()
    stream,         \* the frame sequence, where the caller fixed it beforehand
    deltaLens,      \* per frame pulled, the length of its delta (0: skipped)
    deltas,         \* per frame pulled, its delta (<<>>: skipped)
    flushedAt,      \* the frames (by index) at which a flush was performed
    sinkLog,        \* the texts handed to onStream, in order
    sinkPending,    \* invocations of onStream that have not completed
    caught,         \* the message of the failure the catch clause caught
    calls,          \* concurrent calls of requestChatCompletions, one record each
    actor,          \* the call that took the last step (0: none)
    rawText,        \* the argument of stripThinkingContent called on its own
    sanitized       \* what its successive applications returned, in order

orchVars == <<timeoutCfg, hasSink, options, overrides, resolutions, aborted,
              timer, elapsed, fetch, resp, opts, mapperCalled, delegated,
              bodyRead, parsed, extractorCalls>>

streamVars == <<minInterval, contentExtractor, contentFull, lengthDelta,
                updateStep, lastUpdateTime, lastStreamText, now, stream,
                deltaLens, deltas, flushedAt, sinkLog, sinkPending, caught>>

callVars == <<calls, actor>>

sanitizerVars == <<rawText, sanitized>>

otherVars == <<callVars, sanitizerVars>>

vars == <<orchVars, streamVars, otherVars, pc, outcome>>

NoOutcome == [kind |-> "none", answer |-> <<>>, error |-> ""]

Returned(text) == [kind |-> "returned", answer |-> text, error |-> ""]

Failed(msg) == [kind |-> "failed", answer |-> <<>>, error |-> msg]

\* ----------------------------------------------------------------- inputs

Timeouts == {0, 30000}

MinIntervals == {0, 2}

CustomOptions ==
    [streamBuilder |-> "custom", contentExtractor |-> "custom",
     fullContentExtractor |-> "custom", errorExtractor |-> "custom"]

\* null, a full set of overrides, and a set whose stream builder gives nothing.
OptionSets ==
    { <<>>,
      <<CustomOptions>>,
      <<[NoOptions EXCEPT !.streamBuilder = "customNone",
                          !.errorExtractor = "custom"]>> }

\* Every options argument: null, and every subset of overrides (with both
\* kinds of caller-supplied stream builder).
AllOptionSets ==
    {<<>>} \cup
    { <<[streamBuilder |-> b, contentExtractor |-> c,
         fullContentExtractor |-> f, errorExtractor |-> e]>> :
        b \in {"absent", "custom", "customNone"},
        c \in {"absent", "custom"},
        f \in {"absent", "custom"},
        e \in {"absent", "custom"} }

Response(ok, contentType, statusText) ==
    [ok |-> ok, contentType |-> contentType, statusText |-> statusText]

Responses ==
    { Response(TRUE, << <<"TEXT/EVENT-STREAM", "charset=utf-8">> >>, "OK"),
      Response(TRUE, << <<"application/stream+json">> >>, "OK"),
      Response(TRUE, << <<"application/json", "text/event-stream">> >>, "OK"),
      Response(TRUE, << <<"Application/JSON", "charset=utf-8">> >>, "OK"),
      Response(TRUE, << <<"text/plain">> >>, "OK"),
      Response(FALSE, << <<"application/json">> >>, "Unauthorized"),
      Response(FALSE, << <<"text/event-stream">> >>, "Bad Gateway"),
      Response(FALSE, << <<"application/json", "text/event-stream">> >>,
               "Bad Request"),
      Response(FALSE, <<>>, "") }

\* One character more than the first flush threshold.
Long == Rep("a", InitialUpdateStep + 1)

Hidden == OpenThink \o <<"s">> \o CloseThink

Frame(t) == WithChoice(NoObj, DeltaChoice(t))

FlatFrame(t) == [NoObj EXCEPT !.text = <<t>>]

\* Frames with no delta: no choices, an empty choices array, a choice without
\* delta, a delta whose content is ''.
EmptyFrames ==
    {NoObj, [NoObj EXCEPT !.choices = << <<>> >>], WithChoice(NoObj, NoChoice),
     Frame(<<>>)}

\* What a stream may deliver to a call of streamHandler: frames of the OpenAI
\* shape, frames of the flat shape, frames with no delta.
Frames ==
    {Frame(t) : t \in {Long, OpenThink, CloseThink, <<" ">>}}
        \cup {FlatFrame(Long), FlatFrame(OpenThinking)}
        \cup EmptyFrames

\* What a stream may deliver within requestChatCompletions.
CallFrames ==
    {Frame(Long), Frame(Hidden), Frame(OpenThink), FlatFrame(Long),
     FlatFrame(Hidden), NoObj}

ThrottleFrames == {Frame(Rep("a", 10)), Frame(Rep("a", 25))}

StreamErrors == {"m", "<think>"}

Content == <<"h", "i">>

\* What resp.json() may resolve with: a falsy value (<<>>) or an object.
Bodies ==
    { <<>>,
      <<NoObj>>,
      <<WithChoice(NoObj, MessageChoice(Hidden \o Content))>>,
      <<WithChoice(NoObj, MessageChoice(<<" ">> \o Content \o OpenThinking))>>,
      <<WithChoice(NoObj, NoChoice)>>,
      <<WithError(NoObj, "bad key")>>,
      <<WithError(WithChoice(NoObj, MessageChoice(Content)), "bad key")>>,
      <<WithError(NoObj, "")>>,
      <<[NoObj EXCEPT !.text = <<Hidden \o Content>>]>>,
      <<[NoObj EXCEPT !.text = <<Content>>, !.detail = <<"quota">>]>> }

\* ---------------------------------------------------------- streamHandler

\* The locals of streamHandler as it starts consuming (lines 57-61).
StreamEntry(extractor) ==
    /\ contentExtractor' = extractor
    /\ contentFull' = <<>>
    /\ lengthDelta' = 0
    /\ updateStep' = InitialUpdateStep
    /\ lastUpdateTime' = now
    /\ lastStreamText' = <<>>
    /\ deltaLens' = <<>>
    /\ deltas' = <<>>
    /\ flushedAt' = {}
    /\ sinkLog' = <<>>
    /\ sinkPending' = 0
    /\ caught' = <<>>
    /\ UNCHANGED <<minInterval, now, stream>>

\* A flush as soon as the threshold is reached.
ShouldFlushAtThreshold(ld, step) == ld >= step

\* if (lengthDelta > updateStep)
ShouldFlush(ld, step) == ld > step

\* A loop without the test of the time since the last flush.
TooSoonNever(t, last, interval) == FALSE

\* if (delta < ENV.TELEGRAM_MIN_STREAM_INTERVAL) continue, under
\* if (ENV.TELEGRAM_MIN_STREAM_INTERVAL > 0)
TooSoon(t, last, interval) == interval > 0 /\ t - last < interval

\* A threshold that stays where it is after a flush.
NextUpdateStepSame(step) == step

\* updateStep += 20
NextUpdateStep(step) == step + UpdateStepGrowth

\* A delivery of every non-empty snapshot, the last one again included.
ShouldDeliverNonEmpty(displayText, last) == displayText # <<>>

\* if (displayText && displayText !== lastStreamText)
ShouldDeliver(displayText, last) == displayText # <<>> /\ displayText # last

\* A loop that calls the sink and goes on without awaiting it.
AfterSinkCallNotAwaited == "pull"

\* Where streamHandler stands after it has called onStream: suspended at the
\* await until the sink's promise settles.
AfterSinkCall == "sink"

\* The values Date.now() may give next: the clock never goes back. The loop
\* reads it only under if (ENV.TELEGRAM_MIN_STREAM_INTERVAL > 0).
ClockReadings(from) == IF minInterval > 0 THEN from..MaxTime ELSE {from}

\* The body of the loop for a frame whose delta is the non-empty text
\* textPart (lines 68-85), with t and t2 the two readings of Date.now():
\* the new locals, whether a flush was performed, what goes to the sink.
OnDelta(textPart, t, t2) ==
    LET ld == lengthDelta + Len(textPart)
        cf == contentFull \o textPart
        kept == [contentFull |-> cf, lengthDelta |-> ld,
                 updateStep |-> updateStep, lastUpdateTime |-> lastUpdateTime,
                 lastStreamText |-> lastStreamText, now |-> now,
                 flushed |-> FALSE, send |-> <<>>]
    IN  IF ~ShouldFlush(ld, updateStep) THEN kept
        ELSE IF TooSoon(t, lastUpdateTime, minInterval)
        THEN [kept EXCEPT !.now = t]
        ELSE LET displayText == stripThinkingContent(cf)
                 deliver == ShouldDeliver(displayText, lastStreamText)
             IN  [contentFull |-> cf,
                  lengthDelta |-> 0,
                  updateStep |-> NextUpdateStep(updateStep),
                  lastUpdateTime |-> IF minInterval > 0 THEN t2
                                     ELSE lastUpdateTime,
                  lastStreamText |-> IF deliver THEN displayText
                                     ELSE lastStreamText,
                  now |-> IF minInterval > 0 THEN t2 ELSE now,
                  flushed |-> TRUE,
                  send |-> IF deliver /\ hasSink
                           THEN <<Ellipsis(displayText)>> ELSE <<>>]

\* catch (e) { contentFull += `\nError: ${e.message}` } and the return.
CatchAndReturn(msg) ==
    /\ contentFull' = contentFull \o ErrorSuffix(msg)
    /\ caught' = <<msg>>
    /\ outcome' = Returned(stripThinkingContent(contentFull'))
    /\ pc' = "done"

\* The stream yields the frame part and the loop body runs up to its next
\* suspension: the next pull, or the await of the sink.
PullFrame(part, bound) ==
    /\ pc = "pull"
    /\ Len(deltaLens) < bound
    /\ LET textPart == ContentExtract(contentExtractor, part)
       IN  IF textPart.thrown
           THEN /\ CatchAndReturn("TypeError")
                /\ deltaLens' = Append(deltaLens, 0)
                /\ deltas' = Append(deltas, <<>>)
                /\ UNCHANGED <<lengthDelta, updateStep, lastUpdateTime,
                               lastStreamText, now, flushedAt, sinkLog,
                               sinkPending>>
           ELSE IF ~TruthyText(textPart)
           THEN /\ deltaLens' = Append(deltaLens, 0)
                /\ deltas' = Append(deltas, <<>>)
                /\ UNCHANGED <<contentFull, lengthDelta, updateStep,
                               lastUpdateTime, lastStreamText, now, flushedAt,
                               sinkLog, sinkPending, caught, pc, outcome>>
           ELSE \E t \in ClockReadings(now) :
                \E t2 \in ClockReadings(t) :
                  LET n == OnDelta(textPart.val[1], t, t2)
                  IN  /\ t2 <= t + 1
                      /\ contentFull' = n.contentFull
                      /\ lengthDelta' = n.lengthDelta
                      /\ updateStep' = n.updateStep
                      /\ lastUpdateTime' = n.lastUpdateTime
                      /\ lastStreamText' = n.lastStreamText
                      /\ now' = n.now
                      /\ deltaLens' = Append(deltaLens, Len(textPart.val[1]))
                      /\ deltas' = Append(deltas, textPart.val[1])
                      /\ flushedAt' = IF n.flushed
                                      THEN flushedAt \cup {Len(deltaLens')}
                                      ELSE flushedAt
                      /\ IF n.send # <<>>
                         THEN /\ sinkLog' = Append(sinkLog, n.send[1])
                              /\ sinkPending' = sinkPending + 1
                              /\ pc' = AfterSinkCall
                         ELSE UNCHANGED <<sinkLog, sinkPending, pc>>
                      /\ UNCHANGED <<caught, outcome>>
    /\ UNCHANGED <<orchVars, otherVars, minInterval, contentExtractor,
                   stream>>

\* The promise onStream returned is fulfilled: the loop goes on.
SinkResolve ==
    /\ sinkPending > 0
    /\ sinkPending' = sinkPending - 1
    /\ pc' = IF pc = "sink" THEN "pull" ELSE pc
    /\ UNCHANGED <<orchVars, otherVars, minInterval, contentExtractor,
                   contentFull, lengthDelta, updateStep, lastUpdateTime,
                   lastStreamText, now, stream, deltaLens, deltas, flushedAt,
                   sinkLog, caught, outcome>>

\* The promise onStream returned is rejected: the await throws into the catch.
SinkReject(msg) ==
    /\ pc = "sink"
    /\ sinkPending > 0
    /\ sinkPending' = sinkPending - 1
    /\ CatchAndReturn(msg)
    /\ UNCHANGED <<orchVars, otherVars, minInterval, contentExtractor,
                   lengthDelta, updateStep, lastUpdateTime, lastStreamText, now,
                   stream, deltaLens, deltas, flushedAt, sinkLog>>

\* A return of the last snapshot delivered instead of the sanitized whole.
StreamEndLastSnapshot ==
    /\ pc = "pull"
    /\ outcome' = Returned(lastStreamText)
    /\ pc' = "done"
    /\ UNCHANGED <<orchVars, streamVars, otherVars>>

\* The frame sequence is exhausted: return stripThinkingContent(contentFull).
StreamEnd ==
    /\ pc = "pull"
    /\ outcome' = Returned(stripThinkingContent(contentFull))
    /\ pc' = "done"
    /\ UNCHANGED <<orchVars, streamVars, otherVars>>

\* The frame sequence raises a failure instead of a frame.
StreamFail(msg) ==
    /\ pc = "pull"
    /\ CatchAndReturn(msg)
    /\ UNCHANGED <<orchVars, otherVars, minInterval, contentExtractor,
                   lengthDelta, updateStep, lastUpdateTime, lastStreamText, now,
                   stream, deltaLens, deltas, flushedAt, sinkLog, sinkPending>>

\* ----------------------------------------------------- mapResponseToAnswer

\* The dispatch with the resp.ok test left out.
TakesStreamPathIgnoringOk(sink, r) == sink /\ isEventStreamResponse(r)

\* if (onStream && resp.ok && isEventStreamResponse(resp))
TakesStreamPath(sink, r) == sink /\ r.ok /\ isEventStreamResponse(r)

\* A mapper that returns the content when there is one and looks at the error
\* only otherwise.
MapJsonBodyContentFirst(o, result) ==
    IF result = <<>> THEN Failed("Empty response")
    ELSE LET e == ErrorExtract(o.errorExtractor, result[1])
             full == FullContentExtract(o.fullContentExtractor, result[1])
         IN  IF TruthyText(full)
             THEN Returned(stripThinkingContent(full.val[1]))
             ELSE IF TruthyString(e) THEN Failed(e.val[1])
             ELSE IF full.thrown THEN Failed("TypeError")
             ELSE Returned(<<>>)

\* A mapper that applies the error extractor before it tests the body: on
\* null both d.error and d.detail raise a TypeError.
MapJsonBodyExtractFirst(o, result) ==
    IF result = <<>> THEN Failed("TypeError")
    ELSE LET e == ErrorExtract(o.errorExtractor, result[1])
             full == FullContentExtract(o.fullContentExtractor, result[1])
         IN  IF TruthyString(e) THEN Failed(e.val[1])
             ELSE IF full.thrown THEN Failed("TypeError")
             ELSE Returned(stripThinkingContent(
                      IF TruthyText(full) THEN full.val[1] ELSE <<>>))

\* Lines 106-114 on what resp.json() resolved with: the failure thrown or the
\* answer returned. The error extractor is called twice on the same body
\* (lines 110 and 111) and gives the same message both times.
MapJsonBody(o, result) ==
    IF result = <<>> THEN Failed("Empty response")
    ELSE LET e == ErrorExtract(o.errorExtractor, result[1])
             full == FullContentExtract(o.fullContentExtractor, result[1])
         IN  IF TruthyString(e) THEN Failed(e.val[1])
             ELSE IF full.thrown THEN Failed("TypeError")
             ELSE Returned(stripThinkingContent(
                      IF TruthyText(full) THEN full.val[1] ELSE <<>>))

\* The extractors lines 107-114 apply to what resp.json() resolved with, in
\* the order of the calls: none for a falsy body, the error extractor a second
\* time when it gave a message, the full-content extractor otherwise.
JsonExtractorCalls(o, result) ==
    IF result = <<>> THEN <<>>
    ELSE IF TruthyString(ErrorExtract(o.errorExtractor, result[1]))
    THEN <<"errorExtractor", "errorExtractor">>
    ELSE <<"errorExtractor", "fullContentExtractor">>

\* mapResponseToAnswer(r, controller, options, onStream) up to its first
\* suspension or its failure (lines 94-106).
mapResponseToAnswer(r) ==
    LET o == fixOpenAICompatibleOptions(overrides)
    IN  /\ mapperCalled' = TRUE
        /\ opts' = <<o>>
        /\ overrides' = WrittenBack(overrides, o)
        /\ resolutions' = resolutions + 1
        /\ resp' = <<r>>
        /\ parsed' = parsed
        /\ extractorCalls' = extractorCalls
        /\ IF TakesStreamPath(hasSink, r)
           THEN IF BuildsStream(o.streamBuilder)
                THEN /\ StreamEntry(o.contentExtractor)
                     /\ delegated' = TRUE
                     /\ pc' = "pull"
                     /\ UNCHANGED <<bodyRead, outcome>>
                ELSE /\ outcome' = Failed("Stream builder error")
                     /\ pc' = "done"
                     /\ UNCHANGED <<delegated, bodyRead, streamVars>>
           ELSE IF ~isJsonResponse(r)
           THEN /\ outcome' = Failed(r.statusText)
                /\ pc' = "done"
                /\ UNCHANGED <<delegated, bodyRead, streamVars>>
           ELSE /\ bodyRead' = TRUE
                /\ pc' = "json"
                /\ UNCHANGED <<delegated, outcome, streamVars>>

\* resp.json() resolves with result; the rest of the mapper runs.
JsonParsed(result) ==
    /\ pc = "json"
    /\ parsed' = <<result>>
    /\ extractorCalls' = JsonExtractorCalls(opts[1], result)
    /\ outcome' = MapJsonBody(opts[1], result)
    /\ pc' = "done"
    /\ UNCHANGED <<timeoutCfg, hasSink, options, overrides, resolutions, aborted,
                   timer, elapsed, fetch, resp, opts, mapperCalled, delegated,
                   bodyRead, streamVars, otherVars>>

\* resp.json() rejects: the body is no JSON text.
JsonReject ==
    /\ pc = "json"
    /\ outcome' = Failed("SyntaxError")
    /\ pc' = "done"
    /\ UNCHANGED <<orchVars, streamVars, otherVars>>

\* -------------------------------------------------- requestChatCompletions

\* Lines 118-131: the controller, the timer when a timeout is configured, and
\* the fetch.
Start ==
    /\ pc = "start"
    /\ aborted' = FALSE
    /\ timer' = IF timeoutCfg > 0 THEN "pending" ELSE "none"
    /\ fetch' = "inflight"
    /\ pc' = "fetch"
    /\ UNCHANGED <<timeoutCfg, hasSink, options, overrides, resolutions,
                   elapsed, resp, opts, mapperCalled, delegated, bodyRead,
                   parsed, extractorCalls, streamVars, otherVars, outcome>>

\* A timer callback that does not abort.
TimerCallbackWithoutAbort(ab) == ab

\* () => controller.abort(): the signal's aborted flag after the callback ran.
TimerCallback(ab) == TRUE

\* The timeout duration has passed. A timer still pending fires and its
\* callback runs controller.abort(); a cleared timer does nothing.
TimeoutElapses ==
    /\ pc # "start"
    /\ timeoutCfg > 0
    /\ ~elapsed
    /\ elapsed' = TRUE
    /\ IF timer = "pending"
       THEN timer' = "fired" /\ aborted' = TimerCallback(aborted)
       ELSE UNCHANGED <<timer, aborted>>
    /\ UNCHANGED <<timeoutCfg, hasSink, options, overrides, resolutions, fetch,
                   resp, opts, mapperCalled, delegated, bodyRead, parsed,
                   extractorCalls, streamVars, otherVars, pc, outcome>>

\* if (timeoutID) clearTimeout(timeoutID)
ClearTimeout(tm) == IF tm = "pending" THEN "cleared" ELSE tm

\* What the timer is after the fetch promise rejected: the await throws and
\* the function is left before line 132.
TimerAfterReject(tm) == tm

\* fetch rejects: with an AbortError once the signal is aborted, with a
\* network failure otherwise. The failure leaves requestChatCompletions.
FetchReject ==
    /\ pc = "fetch"
    /\ fetch' = "rejected"
    /\ timer' = TimerAfterReject(timer)
    /\ outcome' = Failed(IF aborted THEN "AbortError" ELSE "NetworkError")
    /\ pc' = "done"
    /\ UNCHANGED <<timeoutCfg, hasSink, options, overrides, resolutions, aborted,
                   elapsed, resp, opts, mapperCalled, delegated, bodyRead,
                   parsed, extractorCalls, streamVars, otherVars>>

\* fetch resolves with the response r (it cannot once the signal is aborted);
\* the timer is cleared and mapResponseToAnswer is called (lines 132-136).
FetchResolve(r) ==
    /\ pc = "fetch"
    /\ ~aborted
    /\ fetch' = "resolved"
    /\ timer' = ClearTimeout(timer)
    /\ mapResponseToAnswer(r)
    /\ UNCHANGED <<timeoutCfg, hasSink, options, aborted, elapsed, otherVars>>

\* --------------------------------------------------------- specifications

\* A call of requestChatCompletions.
Init ==
    /\ timeoutCfg \in Timeouts
    /\ minInterval \in MinIntervals
    /\ hasSink \in BOOLEAN
    /\ options \in OptionSets
    /\ overrides = options
    /\ resolutions = 0
    /\ pc = "start"
    /\ aborted = FALSE
    /\ timer = "none"
    /\ elapsed = FALSE
    /\ fetch = "idle"
    /\ resp = <<>>
    /\ opts = <<>>
    /\ mapperCalled = FALSE
    /\ delegated = FALSE
    /\ bodyRead = FALSE
    /\ parsed = <<>>
    /\ extractorCalls = <<>>
    /\ outcome = NoOutcome
    /\ contentExtractor = "default"
    /\ contentFull = <<>>
    /\ lengthDelta = 0
    /\ updateStep = InitialUpdateStep
    /\ lastUpdateTime = 0
    /\ lastStreamText = <<>>
    /\ now = 0
    /\ stream = <<>>
    /\ deltaLens = <<>>
    /\ deltas = <<>>
    /\ flushedAt = {}
    /\ sinkLog = <<>>
    /\ sinkPending = 0
    /\ caught = <<>>
    /\ calls = <<>>
    /\ actor = 0
    /\ rawText = <<>>
    /\ sanitized = <<>>

Next ==
    \/ Start
    \/ TimeoutElapses
    \/ FetchReject
    \/ \E r \in Responses : FetchResolve(r)
    \/ \E b \in Bodies : JsonParsed(b)
    \/ JsonReject
    \/ \E f \in CallFrames : PullFrame(f, MaxCallFrames)
    \/ SinkResolve
    \/ \E m \in StreamErrors : SinkReject(m)
    \/ StreamEnd
    \/ \E m \in StreamErrors : StreamFail(m)

Spec == Init /\ [][Next]_vars

\* A fetch whose signal is aborted rejects: the abort steps of fetch reject its
\* promise, so that rejection cannot be put off for ever.
AbortedFetchRejects == aborted /\ FetchReject

SpecFair == Init /\ [][Next]_vars /\ WF_vars(AbortedFetchRejects)

\* A call of streamHandler itself (it is exported), with any extractor, with
\* or without a sink.
StreamInit ==
    /\ timeoutCfg = 0
    /\ minInterval \in MinIntervals
    /\ hasSink \in BOOLEAN
    /\ options = <<>>
    /\ overrides = options
    /\ resolutions = 0
    /\ pc = "pull"
    /\ aborted = FALSE
    /\ timer = "none"
    /\ elapsed = FALSE
    /\ fetch = "idle"
    /\ resp = <<>>
    /\ opts = <<>>
    /\ mapperCalled = FALSE
    /\ delegated = TRUE
    /\ bodyRead = FALSE
    /\ parsed = <<>>
    /\ extractorCalls = <<>>
    /\ outcome = NoOutcome
    /\ contentExtractor \in {"default", "custom"}
    /\ contentFull = <<>>
    /\ lengthDelta = 0
    /\ updateStep = InitialUpdateStep
    /\ lastUpdateTime = 0
    /\ lastStreamText = <<>>
    /\ now = 0
    /\ stream = <<>>
    /\ deltaLens = <<>>
    /\ deltas = <<>>
    /\ flushedAt = {}
    /\ sinkLog = <<>>
    /\ sinkPending = 0
    /\ caught = <<>>
    /\ calls = <<>>
    /\ actor = 0
    /\ rawText = <<>>
    /\ sanitized = <<>>

StreamNext ==
    \/ \E f \in Frames : PullFrame(f, MaxFrames)
    \/ SinkResolve
    \/ \E m \in StreamErrors : SinkReject(m)
    \/ StreamEnd
    \/ \E m \in StreamErrors : StreamFail(m)

SpecStream == StreamInit /\ [][StreamNext]_vars

\* A call of streamHandler with time throttling disabled, on streams of
\* deltas of 10 and 25 characters.
ThrottleInit ==
    /\ timeoutCfg = 0
    /\ minInterval \in {0, -1}
    /\ hasSink = TRUE
    /\ options = <<>>
    /\ overrides = options
    /\ resolutions = 0
    /\ pc = "pull"
    /\ aborted = FALSE
    /\ timer = "none"
    /\ elapsed = FALSE
    /\ fetch = "idle"
    /\ resp = <<>>
    /\ opts = <<>>
    /\ mapperCalled = FALSE
    /\ delegated = TRUE
    /\ bodyRead = FALSE
    /\ parsed = <<>>
    /\ extractorCalls = <<>>
    /\ outcome = NoOutcome
    /\ contentExtractor = "default"
    /\ contentFull = <<>>
    /\ lengthDelta = 0
    /\ updateStep = InitialUpdateStep
    /\ lastUpdateTime = 0
    /\ lastStreamText = <<>>
    /\ now = 0
    /\ stream = <<>>
    /\ deltaLens = <<>>
    /\ deltas = <<>>
    /\ flushedAt = {}
    /\ sinkLog = <<>>
    /\ sinkPending = 0
    /\ caught = <<>>
    /\ calls = <<>>
    /\ actor = 0
    /\ rawText = <<>>
    /\ sanitized = <<>>

ThrottleNext ==
    \/ \E f \in ThrottleFrames : PullFrame(f, MaxThrottleFrames)
    \/ SinkResolve
    \/ StreamEnd

SpecThrottle == ThrottleInit /\ [][ThrottleNext]_vars

\* fixOpenAICompatibleOptions on its own: the caller hands one options
\* argument to call after call, or hands back the set a call returned.
ResolveInit ==
    /\ timeoutCfg = 0
    /\ minInterval = 0
    /\ hasSink = FALSE
    /\ options \in AllOptionSets
    /\ overrides = options
    /\ resolutions = 0
    /\ pc = "resolve"
    /\ aborted = FALSE
    /\ timer = "none"
    /\ elapsed = FALSE
    /\ fetch = "idle"
    /\ resp = <<>>
    /\ opts = <<>>
    /\ mapperCalled = FALSE
    /\ delegated = FALSE
    /\ bodyRead = FALSE
    /\ parsed = <<>>
    /\ extractorCalls = <<>>
    /\ outcome = NoOutcome
    /\ contentExtractor = "default"
    /\ contentFull = <<>>
    /\ lengthDelta = 0
    /\ updateStep = InitialUpdateStep
    /\ lastUpdateTime = 0
    /\ lastStreamText = <<>>
    /\ now = 0
    /\ stream = <<>>
    /\ deltaLens = <<>>
    /\ deltas = <<>>
    /\ flushedAt = {}
    /\ sinkLog = <<>>
    /\ sinkPending = 0
    /\ caught = <<>>
    /\ calls = <<>>
    /\ actor = 0
    /\ rawText = <<>>
    /\ sanitized = <<>>

\* fixOpenAICompatibleOptions(arg), arg being the object the caller holds or
\* the set a former call returned (the same object unless the caller holds
\* null): the set returned, and the caller's object, which is written to.
ResolveArgument(arg) ==
    /\ pc = "resolve"
    /\ resolutions < MaxResolves
    /\ opts' = <<fixOpenAICompatibleOptions(arg)>>
    /\ overrides' = WrittenBack(overrides, opts'[1])
    /\ resolutions' = resolutions + 1
    /\ UNCHANGED <<timeoutCfg, hasSink, options, aborted, timer, elapsed, fetch,
                   resp, mapperCalled, delegated, bodyRead, parsed,
                   extractorCalls, streamVars, otherVars, pc, outcome>>

\* The caller's options argument is resolved.
Resolve == ResolveArgument(overrides)

\* The set the last resolution returned is resolved again.
ResolveAgain == opts # <<>> /\ ResolveArgument(opts)

ResolveNext == Resolve \/ ResolveAgain

SpecResolve == ResolveInit /\ [][ResolveNext]_vars

\* A call of streamHandler with a positive ENV.TELEGRAM_MIN_STREAM_INTERVAL,
\* on streams of deltas that reach the threshold at once, of short deltas and
\* of frames without delta.
IntervalFrames == {Frame(Long), Frame(<<"a">>), NoObj}

IntervalInit ==
    /\ timeoutCfg = 0
    /\ minInterval \in {1, 2}
    /\ hasSink \in BOOLEAN
    /\ options = <<>>
    /\ overrides = options
    /\ resolutions = 0
    /\ pc = "pull"
    /\ aborted = FALSE
    /\ timer = "none"
    /\ elapsed = FALSE
    /\ fetch = "idle"
    /\ resp = <<>>
    /\ opts = <<>>
    /\ mapperCalled = FALSE
    /\ delegated = TRUE
    /\ bodyRead = FALSE
    /\ parsed = <<>>
    /\ extractorCalls = <<>>
    /\ outcome = NoOutcome
    /\ contentExtractor = "default"
    /\ contentFull = <<>>
    /\ lengthDelta = 0
    /\ updateStep = InitialUpdateStep
    /\ lastUpdateTime = 0
    /\ lastStreamText = <<>>
    /\ now = 0
    /\ stream = <<>>
    /\ deltaLens = <<>>
    /\ deltas = <<>>
    /\ flushedAt = {}
    /\ sinkLog = <<>>
    /\ sinkPending = 0
    /\ caught = <<>>
    /\ calls = <<>>
    /\ actor = 0
    /\ rawText = <<>>
    /\ sanitized = <<>>

IntervalNext ==
    \/ \E f \in IntervalFrames : PullFrame(f, MaxFrames)
    \/ SinkResolve
    \/ StreamEnd

SpecInterval == IntervalInit /\ [][IntervalNext]_vars

\* A call of streamHandler in which the sink or the delta extractor may fail
\* (the frame sequence does not): the sink rejects, the strict extractor
\* throws on a frame without choices.
FailureFrames ==
    {Frame(Long), Frame(Long \o OpenThink), Frame(OpenThink), NoObj}

FailureInit ==
    /\ timeoutCfg = 0
    /\ minInterval = 0
    /\ hasSink \in BOOLEAN
    /\ options = <<>>
    /\ overrides = options
    /\ resolutions = 0
    /\ pc = "pull"
    /\ aborted = FALSE
    /\ timer = "none"
    /\ elapsed = FALSE
    /\ fetch = "idle"
    /\ resp = <<>>
    /\ opts = <<>>
    /\ mapperCalled = FALSE
    /\ delegated = TRUE
    /\ bodyRead = FALSE
    /\ parsed = <<>>
    /\ extractorCalls = <<>>
    /\ outcome = NoOutcome
    /\ contentExtractor \in {"default", "strict"}
    /\ contentFull = <<>>
    /\ lengthDelta = 0
    /\ updateStep = InitialUpdateStep
    /\ lastUpdateTime = 0
    /\ lastStreamText = <<>>
    /\ now = 0
    /\ stream = <<>>
    /\ deltaLens = <<>>
    /\ deltas = <<>>
    /\ flushedAt = {}
    /\ sinkLog = <<>>
    /\ sinkPending = 0
    /\ caught = <<>>
    /\ calls = <<>>
    /\ actor = 0
    /\ rawText = <<>>
    /\ sanitized = <<>>

FailureNext ==
    \/ \E f \in FailureFrames : PullFrame(f, MaxFrames)
    \/ SinkResolve
    \/ \E m \in StreamErrors : SinkReject(m)
    \/ StreamEnd

SpecFailure == FailureInit /\ [][FailureNext]_vars

\* ------------------------------------------ streamHandler, a given stream

\* for await (const part of stream): the stream is a finite sequence of
\* frames fixed beforehand, which ends, or fails, after its last frame. The
\* loop pulls the frames one by one from the front.
FiniteFrames == {Frame(Long), Frame(<<"a">>), NoObj}

RECURSIVE FrameSeqs(_)
\* The frame sequences of length n.
FrameSeqs(n) ==
    IF n = 0 THEN {<<>>}
    ELSE {Append(s, f) : s \in FrameSeqs(n - 1), f \in FiniteFrames}

FiniteStreams ==
    {[frames |-> s, failure |-> e] :
        s \in UNION {FrameSeqs(n) : n \in 0..MaxStreamLen},
        e \in {<<>>, <<"m">>}}

FiniteInit ==
    /\ timeoutCfg = 0
    /\ minInterval \in MinIntervals
    /\ hasSink \in BOOLEAN
    /\ options = <<>>
    /\ overrides = options
    /\ resolutions = 0
    /\ pc = "pull"
    /\ aborted = FALSE
    /\ timer = "none"
    /\ elapsed = FALSE
    /\ fetch = "idle"
    /\ resp = <<>>
    /\ opts = <<>>
    /\ mapperCalled = FALSE
    /\ delegated = TRUE
    /\ bodyRead = FALSE
    /\ parsed = <<>>
    /\ extractorCalls = <<>>
    /\ outcome = NoOutcome
    /\ contentExtractor \in {"default", "strict"}
    /\ contentFull = <<>>
    /\ lengthDelta = 0
    /\ updateStep = InitialUpdateStep
    /\ lastUpdateTime = 0
    /\ lastStreamText = <<>>
    /\ now = 0
    /\ stream \in {<<s>> : s \in FiniteStreams}
    /\ deltaLens = <<>>
    /\ deltas = <<>>
    /\ flushedAt = {}
    /\ sinkLog = <<>>
    /\ sinkPending = 0
    /\ caught = <<>>
    /\ calls = <<>>
    /\ actor = 0
    /\ rawText = <<>>
    /\ sanitized = <<>>

\* The frames of the stream not pulled yet.
FramesLeft == Len(stream[1].frames) - Len(deltaLens)

\* The loop pulls the next frame of the stream.
PullNext ==
    /\ FramesLeft > 0
    /\ PullFrame(stream[1].frames[Len(deltaLens) + 1], Len(stream[1].frames))

\* The stream has no frame left and ends.
EndOfStream ==
    /\ FramesLeft = 0
    /\ stream[1].failure = <<>>
    /\ StreamEnd

\* The stream has no frame left and fails.
FailOfStream ==
    /\ FramesLeft = 0
    /\ stream[1].failure # <<>>
    /\ StreamFail(stream[1].failure[1])

\* The iteration of the stream moves on: a frame, its end or its failure.
StreamStep == PullNext \/ EndOfStream \/ FailOfStream

\* The sink's pending invocation completes, by fulfilment or rejection.
SinkCompletes == SinkResolve \/ \E msg \in StreamErrors : SinkReject(msg)

FiniteNext ==
    \/ PullNext
    \/ EndOfStream
    \/ FailOfStream
    \/ SinkResolve
    \/ \E msg \in StreamErrors : SinkReject(msg)

\* The loop is at its for await, asking the stream for its next item: the
\* states where a step of the stream is possible.
AwaitingStream == pc = "pull"

\* A stream that is asked for its next item yields it, and an invocation of
\* the sink completes. The first condition is WF_vars(StreamStep) written
\* out, with AwaitingStream for ENABLED <<StreamStep>>_vars.
SpecFinite ==
    /\ FiniteInit
    /\ [][FiniteNext]_vars
    /\ ([]<>~AwaitingStream \/ []<><<StreamStep>>_vars)
    /\ WF_vars(SinkCompletes)

\* ------------------------------------------------ stripThinkingContent alone

\* What the texts given to stripThinkingContent are made of: a visible
\* character, a blank, the four tags, and the two halves of an opening tag
\* that a removed block may lie between.
Pieces ==
    { <<"a">>, <<" ">>, OpenThink, CloseThink, OpenThinking, CloseThinking,
      <<"<", "t", "h", "i">>, <<"n", "k", ">">> }

RECURSIVE TextsOf(_)
\* The texts of at most n pieces.
TextsOf(n) ==
    IF n = 0 THEN {<<>>}
    ELSE LET S == TextsOf(n - 1)
         IN  S \cup {s \o p : s \in S, p \in Pieces}

\* "<thi<think></think>nk></think>a": the removal of the closed span joins
\* "<thi" and "nk>" into an opening tag, with a closing tag after it.
JoinedText ==
    <<"<", "t", "h", "i">> \o OpenThink \o CloseThink \o <<"n", "k", ">">>
        \o CloseThink \o <<"a">>

\* "a<think>secret</think>b", "visible<think>hidden", "  x" and "x  ".
ExampleTexts ==
    { <<"a">> \o OpenThink \o <<"s", "e", "c", "r", "e", "t">> \o CloseThink
          \o <<"b">>,
      <<"v", "i", "s", "i", "b", "l", "e">> \o OpenThink
          \o <<"h", "i", "d", "d", "e", "n">>,
      <<" ", " ", "x">>,
      <<"x", " ", " ">> }

Texts == TextsOf(MaxPieces) \cup ExampleTexts \cup {JoinedText}

SanitizeInit ==
    /\ timeoutCfg = 0
    /\ minInterval = 0
    /\ hasSink = FALSE
    /\ options = <<>>
    /\ overrides = options
    /\ resolutions = 0
    /\ pc = "sanitize"
    /\ aborted = FALSE
    /\ timer = "none"
    /\ elapsed = FALSE
    /\ fetch = "idle"
    /\ resp = <<>>
    /\ opts = <<>>
    /\ mapperCalled = FALSE
    /\ delegated = FALSE
    /\ bodyRead = FALSE
    /\ parsed = <<>>
    /\ extractorCalls = <<>>
    /\ outcome = NoOutcome
    /\ contentExtractor = "default"
    /\ contentFull = <<>>
    /\ lengthDelta = 0
    /\ updateStep = InitialUpdateStep
    /\ lastUpdateTime = 0
    /\ lastStreamText = <<>>
    /\ now = 0
    /\ stream = <<>>
    /\ deltaLens = <<>>
    /\ deltas = <<>>
    /\ flushedAt = {}
    /\ sinkLog = <<>>
    /\ sinkPending = 0
    /\ caught = <<>>
    /\ calls = <<>>
    /\ actor = 0
    /\ rawText \in Texts
    /\ sanitized = <<>>

\* stripThinkingContent(rawText), and then stripThinkingContent of what the
\* application before returned.
Sanitize ==
    /\ pc = "sanitize"
    /\ Len(sanitized) < MaxPasses
    /\ sanitized' = Append(sanitized,
                       stripThinkingContent(IF sanitized = <<>> THEN rawText
                                            ELSE sanitized[Len(sanitized)]))
    /\ UNCHANGED <<orchVars, streamVars, callVars, rawText, pc, outcome>>

SpecSanitize == SanitizeInit /\ [][Sanitize]_vars

\* ------------------------------------------------------ concurrent calls

\* Calls of requestChatCompletions that run at the same time: JavaScript runs
\* one of them at a time and goes from one to another at an await. Each call
\* has a record of its locals:
\*   arg        : its options argument, "null" or "caller" (the one options
\*                object the caller holds, whose fields are overrides);
\*   pc, aborted, timer, outcome : as pc, aborted, timer, outcome;
\*   set        : what its local options refers to after line 94: "none"
\*                before, "fresh" (the object line 24 made) or "caller";
\*   contentFull, lengthDelta, pulled : the accumulator of its streamHandler
\*                and the number of frames it pulled.
CallIds == 1..NumCalls

NewCall(arg) ==
    [arg |-> arg, pc |-> "start", aborted |-> FALSE, timer |-> "none",
     set |-> "none", contentFull |-> <<>>, lengthDelta |-> 0, pulled |-> 0,
     outcome |-> NoOutcome]

\* The object the options argument of the call c refers to.
ArgumentOf(c) == IF c.arg = "caller" THEN overrides ELSE <<>>

\* The extractor set of the call c: the fields of the object its local
\* options refers to.
ExtractorSetOf(c) ==
    IF c.set = "caller" THEN overrides[1] ELSE fixOpenAICompatibleOptions(<<>>)

\* The step of call i that takes its record to c.
CallStep(i, c) ==
    /\ calls' = [calls EXCEPT ![i] = c]
    /\ actor' = i

SharedUnchanged ==
    UNCHANGED <<timeoutCfg, hasSink, options, overrides, resolutions, aborted,
                timer, elapsed, fetch, resp, opts, mapperCalled, delegated,
                bodyRead, parsed, extractorCalls, streamVars, sanitizerVars,
                pc, outcome>>

\* Lines 118-131 in call i.
CallStart(i) ==
    /\ calls[i].pc = "start"
    /\ CallStep(i, [calls[i] EXCEPT
                       !.pc = "fetch",
                       !.timer = IF timeoutCfg > 0 THEN "pending" ELSE "none"])
    /\ SharedUnchanged

\* The timer of call i fires: its callback aborts the controller of call i.
CallTimerFires(i) ==
    /\ calls[i].pc # "start"
    /\ calls[i].timer = "pending"
    /\ CallStep(i, [calls[i] EXCEPT
                       !.timer = "fired",
                       !.aborted = TimerCallback(calls[i].aborted)])
    /\ SharedUnchanged

\* The fetch of call i rejects.
CallFetchReject(i) ==
    /\ calls[i].pc = "fetch"
    /\ CallStep(i, [calls[i] EXCEPT
                       !.pc = "done",
                       !.timer = TimerAfterReject(calls[i].timer),
                       !.outcome = Failed(IF calls[i].aborted THEN "AbortError"
                                          ELSE "NetworkError")])
    /\ SharedUnchanged

\* The fetch of call i resolves with r: lines 132-136 and mapResponseToAnswer
\* up to its first suspension or its failure (lines 94-106).
CallFetchResolve(i, r) ==
    LET c == calls[i]
        o == fixOpenAICompatibleOptions(ArgumentOf(c))
        cleared == [c EXCEPT !.timer = ClearTimeout(c.timer),
                             !.set = IF c.arg = "caller" THEN "caller"
                                     ELSE "fresh"]
    IN  /\ c.pc = "fetch"
        /\ ~c.aborted
        /\ overrides' = IF c.arg = "caller" THEN WrittenBack(overrides, o)
                        ELSE overrides
        /\ resolutions' = resolutions + 1
        /\ CallStep(i,
              IF TakesStreamPath(hasSink, r)
              THEN IF BuildsStream(o.streamBuilder)
                   THEN [cleared EXCEPT !.pc = "pull"]
                   ELSE [cleared EXCEPT !.pc = "done",
                                        !.outcome = Failed("Stream builder error")]
              ELSE IF ~isJsonResponse(r)
              THEN [cleared EXCEPT !.pc = "done",
                                   !.outcome = Failed(r.statusText)]
              ELSE [cleared EXCEPT !.pc = "json"])
        /\ UNCHANGED <<timeoutCfg, hasSink, options, aborted, timer, elapsed,
                       fetch, resp, opts, mapperCalled, delegated, bodyRead,
                       parsed, extractorCalls, streamVars, sanitizerVars, pc,
                       outcome>>

\* resp.json() of call i resolves with result (lines 107-114).
CallJsonParsed(i, result) ==
    /\ calls[i].pc = "json"
    /\ CallStep(i, [calls[i] EXCEPT
                       !.pc = "done",
                       !.outcome = MapJsonBody(ExtractorSetOf(calls[i]), result)])
    /\ SharedUnchanged

\* The stream of call i yields the frame part (lines 64-70), its delta short
\* enough to keep the count of the call under the first threshold.
CallPullFrame(i, part) ==
    LET c == calls[i]
        textPart == ContentExtract(ExtractorSetOf(c).contentExtractor, part)
        ld == c.lengthDelta + Len(textPart.val[1])
    IN  /\ c.pc = "pull"
        /\ c.pulled < MaxCallFrames
        /\ ~textPart.thrown
        /\ TruthyText(textPart) => ~ShouldFlush(ld, InitialUpdateStep)
        /\ CallStep(i,
              IF ~TruthyText(textPart) THEN [c EXCEPT !.pulled = c.pulled + 1]
              ELSE [c EXCEPT !.pulled = c.pulled + 1,
                             !.lengthDelta = ld,
                             !.contentFull = c.contentFull \o textPart.val[1]])
        /\ SharedUnchanged

\* The stream of call i is exhausted (line 90).
CallStreamEnd(i) ==
    /\ calls[i].pc = "pull"
    /\ CallStep(i, [calls[i] EXCEPT
                       !.pc = "done",
                       !.outcome =
                           Returned(stripThinkingContent(calls[i].contentFull))])
    /\ SharedUnchanged

\* The stream of call i raises a failure (lines 87-90).
CallStreamFail(i, msg) ==
    LET full == calls[i].contentFull \o ErrorSuffix(msg)
    IN  /\ calls[i].pc = "pull"
        /\ CallStep(i, [calls[i] EXCEPT
                           !.pc = "done",
                           !.contentFull = full,
                           !.outcome = Returned(stripThinkingContent(full))])
        /\ SharedUnchanged

\* The options object the caller holds, and what each call is given.
SharedOptionSets ==
    { <<NoOptions>>,
      <<[NoOptions EXCEPT !.contentExtractor = "custom"]>>,
      <<[CustomOptions EXCEPT !.streamBuilder = "customNone"]>>,
      <<CustomOptions>> }

ConcurrentResponses ==
    { Response(TRUE, << <<"text/event-stream">> >>, "OK"),
      Response(TRUE, << <<"application/json">> >>, "OK"),
      Response(FALSE, << <<"text/plain">> >>, "Bad Gateway") }

ConcurrentFrames == {Frame(<<"a">>), FlatFrame(<<"b">>)}

ConcurrentBodies ==
    { <<>>,
      <<WithChoice(NoObj, MessageChoice(Content))>>,
      <<[NoObj EXCEPT !.text = <<Content>>, !.detail = <<"quota">>]>> }

CallsInit ==
    /\ timeoutCfg \in Timeouts
    /\ minInterval = 0
    /\ hasSink \in BOOLEAN
    /\ options \in SharedOptionSets
    /\ overrides = options
    /\ resolutions = 0
    /\ pc = "calls"
    /\ aborted = FALSE
    /\ timer = "none"
    /\ elapsed = FALSE
    /\ fetch = "idle"
    /\ resp = <<>>
    /\ opts = <<>>
    /\ mapperCalled = FALSE
    /\ delegated = FALSE
    /\ bodyRead = FALSE
    /\ parsed = <<>>
    /\ extractorCalls = <<>>
    /\ outcome = NoOutcome
    /\ contentExtractor = "default"
    /\ contentFull = <<>>
    /\ lengthDelta = 0
    /\ updateStep = InitialUpdateStep
    /\ lastUpdateTime = 0
    /\ lastStreamText = <<>>
    /\ now = 0
    /\ stream = <<>>
    /\ deltaLens = <<>>
    /\ deltas = <<>>
    /\ flushedAt = {}
    /\ sinkLog = <<>>
    /\ sinkPending = 0
    /\ caught = <<>>
    /\ calls \in {[i \in CallIds |-> NewCall(args[i])] :
                     args \in [CallIds -> {"null", "caller"}]}
    /\ actor = 0
    /\ rawText = <<>>
    /\ sanitized = <<>>

CallsNext ==
    \E i \in CallIds :
        \/ CallStart(i)
        \/ CallTimerFires(i)
        \/ CallFetchReject(i)
        \/ \E r \in ConcurrentResponses : CallFetchResolve(i, r)
        \/ \E b \in ConcurrentBodies : CallJsonParsed(i, b)
        \/ \E f \in ConcurrentFrames : CallPullFrame(i, f)
        \/ CallStreamEnd(i)
        \/ \E m \in StreamErrors : CallStreamFail(i, m)

SpecCalls == CallsInit /\ [][CallsNext]_vars

\* ------------------------------------------------------------------ claims

EndsWith(t, suffix) ==
    /\ Len(suffix) <= Len(t)
    /\ SubSeq(t, Len(t) - Len(suffix) + 1, Len(t)) = suffix

\* No opening <think> or <thinking> tag and no leading whitespace.
IsSanitized(t) ==
    /\ \A i \in 1..Len(t) :
          ~MatchesAt(t, i, OpenThink) /\ ~MatchesAt(t, i, OpenThinking)
    /\ (t = <<>> \/ ~IsWhitespace(t[1]))

StreamWanted == hasSink /\ resp[1].ok /\ isEventStreamResponse(resp[1])

\* C1 (as stated): once mapResponseToAnswer has been called, the Stream
\* Consumer was invoked if and only if a sink was supplied, the response is ok
\* and it classifies as an event stream.
C1_DelegatesIffStreamWanted == mapperCalled => (delegated <=> StreamWanted)

\* C1 (amended): the streaming branch is taken if and only if a sink was
\* supplied, the response is ok and it is an event stream, JSON or not; on that
\* branch the Stream Consumer is invoked when the stream builder gives a
\* stream, and otherwise the call fails with "Stream builder error". In every
\* other case a response that is not JSON fails the call with its statusText,
\* and a JSON response has its body read. The body is read on no other path,
\* and the sink is invoked only by the Stream Consumer.
C1_Dispatch ==
    mapperCalled =>
        LET builds == BuildsStream(opts[1].streamBuilder)
            json == isJsonResponse(resp[1])
        IN  /\ delegated <=> (StreamWanted /\ builds)
            /\ (StreamWanted /\ ~builds) =>
                   outcome = Failed("Stream builder error")
            /\ (~StreamWanted /\ ~json) => outcome = Failed(resp[1].statusText)
            /\ bodyRead <=> (~StreamWanted /\ json)
            /\ ~delegated => sinkLog = <<>>
            /\ ~bodyRead => parsed = <<>>

\* C1: a response that is both JSON and an event stream was streamed.
C1_Witness ==
    /\ delegated
    /\ mapperCalled
    /\ isJsonResponse(resp[1])
    /\ ~bodyRead
    /\ pc = "done"

\* C2: when the catch clause of streamHandler caught a failure with message
\* "m", the text returned ends with the annotation "Error: m" (the claim asks
\* for "\nError: m"; the line break is not even required here).
C2_AnnotationReturned ==
    (pc = "done" /\ caught = <<"m">> /\ outcome.kind = "returned")
        => EndsWith(outcome.answer, <<"E", "r", "r", "o", "r", ":", " ", "m">>)

\* C3: every answer returned, by the streaming path or the JSON path, is
\* sanitized; every text handed to the sink is a sanitized text followed by
\* "\n...", and while the sink runs it is the sanitized snapshot of the text
\* accumulated so far.
C3_Sanitized ==
    /\ outcome.kind = "returned" => IsSanitized(outcome.answer)
    /\ \A i \in 1..Len(sinkLog) :
          /\ EndsWith(sinkLog[i], <<"\n", ".", ".", ".">>)
          /\ IsSanitized(SubSeq(sinkLog[i], 1, Len(sinkLog[i]) - 4))
    /\ pc = "sink" =>
          sinkLog[Len(sinkLog)] = Ellipsis(stripThinkingContent(contentFull))

\* C3: a streamed call has returned, the sink having been handed a snapshot of
\* a text that holds a thinking block, and the text accumulated at the end
\* holds an opening tag.
C3_Witness ==
    /\ mapperCalled
    /\ outcome.kind = "returned"
    /\ sinkLog # <<>>
    /\ FirstClose(contentFull, 1) > 0
    /\ FirstOpen(RemoveClosed(contentFull), 1) > 0

\* C4: the timer firing trips the token; the token is never reset; a fetch in
\* flight whose token is tripped settles only as a rejection, which is the
\* failure of the call; mapResponseToAnswer is not called for that call and
\* nothing is returned; and the rejection does come.
C4_TimeoutCancelsCall ==
    /\ [](aborted => /\ timer = "fired"
                     /\ ~mapperCalled
                     /\ fetch # "resolved"
                     /\ outcome.kind # "returned")
    /\ [][(timer = "pending" /\ timer' = "fired") => aborted']_vars
    /\ [][aborted => aborted']_vars
    /\ [][(aborted /\ fetch = "inflight" /\ fetch' # "inflight")
            => /\ fetch' = "rejected"
               /\ outcome' = Failed("AbortError")
               /\ pc' = "done"]_vars
    /\ (aborted /\ fetch = "inflight") ~> (outcome = Failed("AbortError"))

\* C4: the timer fired during the fetch and the call failed by the abort.
C4_Witness ==
    /\ timeoutCfg > 0
    /\ timer = "fired"
    /\ aborted
    /\ fetch = "rejected"
    /\ outcome = Failed("AbortError")

\* C5: the HTTP call is never settled, resolved or rejected, with the timer of
\* the call still pending.
C5_TimerDisarmedOnceSettled ==
    fetch \in {"resolved", "rejected"} => timer # "pending"

\* C6: when the timeout duration runs out while frames are being consumed or
\* the JSON body is being read, the token of the call is tripped.
C6_TimeoutCoversBody ==
    [][(~elapsed /\ elapsed' /\ pc \in {"pull", "sink", "json"}) => aborted']_vars

\* C7: on the JSON path, when the error extractor gives a non-empty message
\* for the parsed body, the call fails with exactly that message, whatever
\* else the body holds.
C7_ErrorMessageWins ==
    (parsed # <<>> /\ parsed[1] # <<>>) =>
        LET e == ErrorExtract(opts[1].errorExtractor, parsed[1][1])
        IN  TruthyString(e) => outcome = Failed(e.val[1])

\* C7: a body with an error message and a valid choices content failed the
\* call with the message.
C7_Witness ==
    /\ parsed = << <<WithError(WithChoice(NoObj, MessageChoice(Content)),
                               "bad key")>> >>
    /\ outcome = Failed("bad key")

\* C8: at most one invocation of the sink is pending, and streamHandler is
\* then suspended at its await; while an invocation stays pending no frame is
\* pulled and the accumulated text does not change; a frame is pulled only
\* with no invocation pending, and frames are taken one at a time, in order.
C8_SinkGatesConsumption ==
    /\ [](sinkPending <= 1 /\ (sinkPending = 1 => pc = "sink"))
    /\ [][(sinkPending > 0 /\ sinkPending' > 0)
            => (deltaLens' = deltaLens /\ contentFull' = contentFull)]_vars
    /\ [][deltaLens' # deltaLens
            => /\ sinkPending = 0
               /\ Len(deltaLens') = Len(deltaLens) + 1
               /\ SubSeq(deltaLens', 1, Len(deltaLens)) = deltaLens]_vars

\* C8: the sink is running on a second snapshot, after it completed the first
\* and further frames were pulled.
C8_Witness ==
    /\ sinkPending = 1
    /\ pc = "sink"
    /\ Len(sinkLog) = 2
    /\ Cardinality(flushedAt) = 2

RECURSIVE Sum(_, _)
\* The sum of the entries of seq after index from.
Sum(seq, from) ==
    IF from >= Len(seq) THEN 0 ELSE seq[from + 1] + Sum(seq, from + 1)

LastFlush == IF flushedAt = {} THEN 0 ELSE CHOOSE i \in flushedAt : \A j \in flushedAt : j <= i

\* C9: with time throttling disabled, the threshold is 50 + 20 * (flushes so
\* far) and the count is that of the characters since the last flush; a frame
\* with a non-empty delta is flushed exactly when the count, with that delta,
\* exceeds the threshold, and the flush resets the count to 0. Ten frames of
\* 10 characters flush once, at the 6th; 50 characters or fewer never flush.
C9_FlushExactlyAboveThreshold ==
    /\ [](minInterval <= 0 =>
            /\ updateStep = 50 + 20 * Cardinality(flushedAt)
            /\ lengthDelta = Sum(deltaLens, LastFlush)
            /\ (deltaLens = [i \in 1..10 |-> 10] => flushedAt = {6})
            /\ (Sum(deltaLens, 0) <= 50 => flushedAt = {}))
    /\ [][(minInterval <= 0 /\ deltaLens' # deltaLens
              /\ deltaLens'[Len(deltaLens')] > 0)
            => LET d == deltaLens'[Len(deltaLens')]
                   flushed == Len(deltaLens') \in flushedAt'
               IN  /\ flushed <=>
                         (lengthDelta + d > 50 + 20 * Cardinality(flushedAt))
                   /\ lengthDelta' = IF flushed THEN 0 ELSE lengthDelta + d
                   /\ flushedAt' \ flushedAt \subseteq {Len(deltaLens')}]_vars

\* C9: ten frames of 10 characters were consumed, with one flush, at the 6th.
C9_Witness ==
    /\ minInterval <= 0
    /\ deltaLens = [i \in 1..10 |-> 10]
    /\ flushedAt = {6}
    /\ Len(contentFull) = 100

\* C10: every text handed to the sink is a non-empty sanitized text followed
\* by "\n..."; no two consecutive invocations get the same text; a flush whose
\* sanitized snapshot is empty or is the last one delivered does not invoke
\* the sink, yet resets the count and raises the threshold; any other flush
\* hands the snapshot to the sink.
C10_DistinctNonEmptyDeliveries ==
    /\ [](/\ \A i \in 1..Len(sinkLog) :
                /\ Len(sinkLog[i]) > 4
                /\ EndsWith(sinkLog[i], <<"\n", ".", ".", ".">>)
                /\ IsSanitized(SubSeq(sinkLog[i], 1, Len(sinkLog[i]) - 4))
          /\ \A i \in 1..(Len(sinkLog) - 1) : sinkLog[i] # sinkLog[i + 1])
    /\ [][(hasSink /\ flushedAt' # flushedAt)
            => LET snapshot == Ellipsis(stripThinkingContent(contentFull'))
                   again == sinkLog # <<>> /\ snapshot = sinkLog[Len(sinkLog)]
               IN  /\ lengthDelta' = 0
                   /\ updateStep' = updateStep + 20
                   /\ sinkLog' = IF Len(snapshot) = 4 \/ again THEN sinkLog
                                 ELSE Append(sinkLog, snapshot)]_vars

\* C10: a second flush found the snapshot the sink already had and did not
\* invoke it again.
C10_Witness ==
    /\ hasSink
    /\ Cardinality(flushedAt) = 2
    /\ Len(sinkLog) = 1
    /\ lengthDelta = 0
    /\ pc = "pull"
    /\ sinkLog[1] = Ellipsis(stripThinkingContent(contentFull))

ExtractorFields ==
    {"streamBuilder", "contentExtractor", "fullContentExtractor",
     "errorExtractor"}

\* C11: once the options argument has been resolved, each of the four fields
\* of the set returned holds the caller's function when the caller gave one
\* and the built-in default otherwise, for null as for every subset of
\* overrides; none of its fields is absent; and resolving the set returned
\* gives that set back, as does every later resolution.
C11_Resolution ==
    /\ [](opts # <<>> =>
            LET given == IF options = <<>> THEN NoOptions ELSE options[1]
            IN  /\ \A f \in ExtractorFields :
                      /\ given[f] # "absent" => opts[1][f] = given[f]
                      /\ given[f] = "absent" => opts[1][f] = "default"
                      /\ opts[1][f] # "absent"
                /\ fixOpenAICompatibleOptions(opts) = opts[1])
    /\ [][opts # <<>> => opts' = opts]_vars

\* The part of t from its first character that is no whitespace on.
FromFirstVisible(t) ==
    IF \A i \in 1..Len(t) : IsWhitespace(t[i]) THEN <<>>
    ELSE LET k == CHOOSE i \in 1..Len(t) :
                      /\ ~IsWhitespace(t[i])
                      /\ \A j \in 1..(i - 1) : IsWhitespace(t[j])
         IN  [i \in 1..(Len(t) - k + 1) |-> t[i + k - 1]]

OpeningTagAt(t, i) ==
    MatchesAt(t, i, OpenThink) \/ MatchesAt(t, i, OpenThinking)

HasOpeningTag(t) == \E i \in 1..Len(t) : OpeningTagAt(t, i)

\* The part of t strictly before its first opening tag, t when it has none.
BeforeFirstOpeningTag(t) ==
    IF ~HasOpeningTag(t) THEN t
    ELSE LET n == CHOOSE m \in 0..(Len(t) - 1) :
                      /\ OpeningTagAt(t, m + 1)
                      /\ \A i \in 1..m : ~OpeningTagAt(t, i)
         IN  [i \in 1..n |-> t[i]]

\* C13 (as stated): sanitize(text) is the result of the three steps and, for
\* every input that holds a closed span, it is the input with its closed
\* spans removed and nothing else.
C13_RemovesExactlyClosedSpans ==
    sanitized # <<>> =>
        /\ sanitized[1] =
               FromFirstVisible(BeforeFirstOpeningTag(RemoveClosed(rawText)))
        /\ RemoveClosed(rawText) # rawText => sanitized[1] = RemoveClosed(rawText)

\* C13 (amended): sanitize(text) is, for every input, the result of the three
\* steps in this order: the closed spans removed (non-greedy, repeated), the
\* text cut before the first opening tag that remains, leading whitespace
\* stripped. An input with closed spans loses exactly those spans when what
\* is left holds no opening tag and starts with no whitespace; otherwise it
\* loses, besides, what the two later steps take, and nothing else. The
\* whitespace at the end of what the first two steps leave is kept, unless
\* that is whitespace only. "a<think>secret</think>b" gives "ab",
\* "visible<think>hidden" gives "visible", "  x" gives "x", "x  " gives "x  ".
C13_ThreeSteps ==
    sanitized # <<>> =>
        LET r == sanitized[1]
            removed == RemoveClosed(rawText)
            cut == BeforeFirstOpeningTag(removed)
        IN  /\ r = FromFirstVisible(cut)
            /\ (removed # rawText /\ ~HasOpeningTag(removed)
                   /\ (removed = <<>> \/ ~IsWhitespace(removed[1])))
                   => r = removed
            /\ r # <<>> => EndsWith(cut, r)
            /\ ~HasOpeningTag(r)
            /\ rawText = <<"a">> \o OpenThink
                            \o <<"s", "e", "c", "r", "e", "t">>
                            \o CloseThink \o <<"b">>
                   => r = <<"a", "b">>
            /\ rawText = <<"v", "i", "s", "i", "b", "l", "e">> \o OpenThink
                            \o <<"h", "i", "d", "d", "e", "n">>
                   => r = <<"v", "i", "s", "i", "b", "l", "e">>
            /\ rawText = <<" ", " ", "x">> => r = <<"x">>
            /\ rawText = <<"x", " ", " ">> => r = <<"x", " ", " ">>
            /\ rawText = OpenThink \o <<"a">> \o OpenThink \o CloseThink
                            \o <<"a">>
                   => r = <<"a">>

\* C13: a text in which the removal of a closed span joined two halves into
\* an opening tag was sanitized, and cut there.
C13_Witness ==
    /\ rawText = <<"<", "t", "h", "i">> \o OpenThink \o CloseThink
                    \o <<"n", "k", ">">>
    /\ RemoveClosed(rawText) = OpenThink
    /\ sanitized # <<>>
    /\ sanitized[1] = <<>>

\* C20: sanitize is idempotent: a second application gives back what the
\* first returned, for every text, those included in which the removal of a
\* closed span joins two fragments into an opening tag; what the first
\* application returns holds no opening tag, so that an extra pass over the
\* result of the streaming path would return it as it is.
C20_Idempotent ==
    Len(sanitized) >= 2 =>
        /\ sanitized[2] = sanitized[1]
        /\ ~HasOpeningTag(sanitized[1])
        /\ sanitized[1] = <<>> \/ ~IsWhitespace(sanitized[1][1])

\* C20: sanitize was applied twice to a text in which the removal of a closed
\* span leaves "<think></think>a", a closed span that a further removal would
\* take, leaving "a".
C20_Witness ==
    /\ Len(sanitized) = 2
    /\ rawText = JoinedText
    /\ RemoveClosed(rawText) = OpenThink \o CloseThink \o <<"a">>
    /\ RemoveClosed(RemoveClosed(rawText)) = <<"a">>
    /\ sanitized[2] = <<>>

\* The choices path of a parsed body is structurally absent: no choices, no
\* first choice, or a first choice without message.
ChoicesPathAbsent(d) ==
    \/ d.choices = <<>>
    \/ d.choices[1] = <<>>
    \/ d.choices[1][1].message = <<>>

\* C14: with the default extractors, a parsed body whose choices path is
\* structurally absent (and that reports no error) makes the call fail, no
\* answer is returned; and on the streaming path a frame of any shape gives
\* an absent delta at worst and never a failure of the extractor.
C14_FullExtractorStrict ==
    /\ (/\ pc = "done"
        /\ parsed # <<>>
        /\ parsed[1] # <<>>
        /\ opts[1].errorExtractor = "default"
        /\ opts[1].fullContentExtractor = "default"
        /\ ~TruthyString(DefaultErrorExtractor(parsed[1][1]))
        /\ ChoicesPathAbsent(parsed[1][1]))
           => outcome.kind = "failed"
    /\ (delegated /\ contentExtractor = "default") => caught # <<"TypeError">>

\* C15: on the JSON path, a parsed body that is empty or absent (null, false,
\* 0 or "": what `!result` holds of) makes the
\* call fail with "Empty response", and no extractor was applied: the
\* extractors are only ever applied to a body that is present, the error
\* extractor first.
C15_EmptyBodyFailsFirst ==
    /\ (parsed # <<>> /\ parsed[1] = <<>>)
           => (outcome = Failed("Empty response") /\ extractorCalls = <<>>)
    /\ extractorCalls # <<>>
           => (/\ parsed # <<>>
               /\ parsed[1] # <<>>
               /\ extractorCalls[1] = "errorExtractor")

\* C15: resp.json() gave an empty body to a call with the caller's own
\* extractors, and the call failed with "Empty response".
C15_Witness ==
    /\ bodyRead
    /\ parsed = << <<>> >>
    /\ opts[1].errorExtractor = "custom"
    /\ extractorCalls = <<>>
    /\ outcome = Failed("Empty response")

\* A step that consumed a frame with a non-empty delta which took the count
\* over the threshold, under a positive minimum interval: a flush attempt.
FlushAttempt ==
    /\ minInterval > 0
    /\ deltas' # deltas
    /\ deltas'[Len(deltas')] # <<>>
    /\ lengthDelta + Len(deltas'[Len(deltas')]) > updateStep

\* A flush attempt that performed no flush.
SkippedAttempt == FlushAttempt /\ flushedAt' = flushedAt

\* C16 (as stated): a flush attempt made less than the interval after the
\* last flush is skipped, and the skipped attempt leaves the since-last-flush
\* count, the threshold, the timestamp and the last snapshot as they were
\* before the delta, the sink not being invoked and the text keeping the
\* delta.
C16_SkipLeavesCountUnchanged ==
    [][SkippedAttempt =>
          /\ sinkLog' = sinkLog
          /\ lengthDelta' = lengthDelta
          /\ updateStep' = updateStep
          /\ lastUpdateTime' = lastUpdateTime
          /\ lastStreamText' = lastStreamText
          /\ contentFull' = contentFull \o deltas'[Len(deltas')]]_vars

\* C16 (amended): under a positive minimum interval, a flush attempt is
\* skipped exactly when the clock read less than the interval after the last
\* flush (after the start of consumption, for the first flush). The skipped
\* attempt does not invoke the sink and leaves the threshold, the timestamp
\* and the last snapshot unchanged; the count is not reset and keeps the
\* delta, as the text does, so that it stays over the threshold and the
\* attempt is made again at the next non-empty delta. The count is over the
\* threshold only after a skipped attempt. A flush resets the count and takes
\* a timestamp at least the interval after the one before.
C16_SkipKeepsCounters ==
    /\ [][SkippedAttempt =>
             /\ now' - lastUpdateTime < minInterval
             /\ sinkLog' = sinkLog
             /\ sinkPending' = sinkPending
             /\ pc' = pc
             /\ lengthDelta' = lengthDelta + Len(deltas'[Len(deltas')])
             /\ lengthDelta' > updateStep'
             /\ updateStep' = updateStep
             /\ lastUpdateTime' = lastUpdateTime
             /\ lastStreamText' = lastStreamText
             /\ contentFull' = contentFull \o deltas'[Len(deltas')]]_vars
    /\ [][(FlushAttempt /\ flushedAt' # flushedAt) =>
             /\ lastUpdateTime' - lastUpdateTime >= minInterval
             /\ lengthDelta' = 0
             /\ updateStep' = updateStep + 20
             /\ contentFull' = contentFull \o deltas'[Len(deltas')]]_vars
    /\ [][(minInterval > 0 /\ flushedAt' # flushedAt) => FlushAttempt]_vars
    /\ [](minInterval > 0 =>
             (lengthDelta > updateStep => now - lastUpdateTime < minInterval))

\* C16: an attempt was skipped at the first frame, made again and performed
\* at the second, and a second flush followed at the fourth.
C16_Witness ==
    /\ minInterval > 0
    /\ deltaLens = <<51, 51, 51, 51>>
    /\ flushedAt = {2, 4}
    /\ lengthDelta = 0
    /\ lastUpdateTime >= 2 * minInterval

\* C17: streamHandler never fails. A failure raised by the sink or by the
\* delta extractor is caught, ends consumption at once (no frame is pulled
\* and the sink is not invoked after it), and the text returned carries the
\* annotation "Error: <message>" of that failure at its end.
C17_FailuresAnnotated ==
    /\ outcome.kind # "failed"
    /\ caught # <<>> =>
          /\ pc = "done"
          /\ sinkPending = 0
          /\ outcome.kind = "returned"
          /\ EndsWith(outcome.answer,
                      <<"E", "r", "r", "o", "r", ":", " ">> \o Chars(caught[1]))

RECURSIVE Concat(_)
\* The texts of the sequence seq put end to end, in order.
Concat(seq) ==
    IF seq = <<>> THEN <<>> ELSE Concat(SubSeq(seq, 1, Len(seq) - 1)) \o seq[Len(seq)]

\* C18: as long as nothing failed, the accumulated text is the deltas of the
\* frames pulled put end to end, and when the frame sequence ends the text
\* returned is the sanitized form of that: a function of the deltas alone,
\* whatever the minimum interval, the clock readings, the pace of the sink or
\* its absence. A frame with an absent or empty delta changes neither the
\* accumulated text nor any throttling counter, and invokes no sink.
C18_FinalTextOfDeltasOnly ==
    /\ [](caught = <<>> =>
            /\ contentFull = Concat(deltas)
            /\ pc = "done" =>
                  outcome = Returned(stripThinkingContent(Concat(deltas))))
    /\ [][(deltas' # deltas /\ deltas'[Len(deltas')] = <<>> /\ caught' = <<>>)
            => UNCHANGED <<contentFull, lengthDelta, updateStep, lastUpdateTime,
                           lastStreamText, now, flushedAt, sinkLog, sinkPending,
                           pc, outcome>>]_vars

\* C18: with no sink and a positive minimum interval, a stream of a long
\* delta, a frame without delta and an opening tag ended, and the long delta
\* was returned.
C18_Witness ==
    /\ pc = "done"
    /\ caught = <<>>
    /\ ~hasSink
    /\ minInterval > 0
    /\ deltas = <<Long, <<>>, OpenThink>>
    /\ outcome = Returned(Long)

\* The delta the loop takes from the frame part: the empty text where the
\* extractor fails or gives nothing.
DeltaOf(part) ==
    LET textPart == ContentExtract(contentExtractor, part)
    IN  IF textPart.thrown \/ ~TruthyText(textPart) THEN <<>>
        ELSE textPart.val[1]

\* The frames pulled are the first frames of the stream, each once and in
\* its place; at the return all of them are pulled unless a failure of the
\* extractor or of the sink stopped the loop.
PulledOnceInOrder ==
    /\ Len(deltas) <= Len(stream[1].frames)
    /\ \A i \in 1..Len(deltas) : deltas[i] = DeltaOf(stream[1].frames[i])
    /\ (pc = "done" /\ caught = <<>>) => Len(deltas) = Len(stream[1].frames)

\* The number of flushes so far, and of characters accumulated so far.
FlushCount == Cardinality(flushedAt)
Accumulated == Sum(deltaLens, 0)

\* C19 as stated: the handler has returned after pulling each frame once and
\* in order, with 50*k + 10*k*(k-1) < N for its k flushes over N accumulated
\* characters, and at most k invocations of the sink.
C19_FlushBoundStrict ==
    pc = "done" =>
        /\ PulledOnceInOrder
        /\ 50 * FlushCount + 10 * FlushCount * (FlushCount - 1) < Accumulated
        /\ Len(sinkLog) <= FlushCount

\* C19: over a finite stream, with a sink whose invocations complete, the
\* handler eventually returns; the frames pulled are the first frames of the
\* stream, each once and in order, all of them unless the extractor or the
\* sink failed; the k flushes over N accumulated characters satisfy
\* 50*k + 10*k*(k-1) <= N, strictly when there was a flush; and the sink was
\* invoked at most k times.
C19_ReturnsWithinBounds ==
    /\ <>(pc = "done" /\ outcome.kind = "returned")
    /\ [](/\ PulledOnceInOrder
          /\ 50 * FlushCount + 10 * FlushCount * (FlushCount - 1)
                + FlushCount <= Accumulated
          /\ Len(sinkLog) <= FlushCount)

\* C19: a stream of three long deltas was pulled to its end, with two
\* flushes, at the first and the third frame, and two invocations of the
\* sink.
C19_Witness ==
    /\ pc = "done"
    /\ caught = <<>>
    /\ stream[1].frames = <<Frame(Long), Frame(Long), Frame(Long)>>
    /\ Len(deltas) = 3
    /\ flushedAt = {1, 3}
    /\ Len(sinkLog) = 2

\* What call j can read: its locals, and the object its options argument
\* refers to.
ObservableBy(j) == <<calls[j], ArgumentOf(calls[j])>>

\* C12: under any interleaving of concurrent calls of requestChatCompletions,
\* a step of one call (the start, the timer firing and tripping the token, the
\* fetch settling, the defaulting of the extractor set, the consumption of a
\* frame, the end) changes nothing another call can read: neither the locals
\* of that call (token, timer, accumulator, extractor set) nor the options
\* object it was given; and no two calls have the same object as their
\* extractor set.
C12_CallsIndependent ==
    /\ [][\A j \in CallIds :
            actor' # j => ObservableBy(j)' = ObservableBy(j)]_vars
    /\ [](\A i, j \in CallIds :
            (i # j /\ calls[i].set # "none" /\ calls[j].set # "none")
                => ~(calls[i].set = "caller" /\ calls[j].set = "caller"))

\* C11: a set with one override was resolved, and the set returned resolved
\* again.
C11_Witness ==
    /\ options = <<[NoOptions EXCEPT !.contentExtractor = "custom"]>>
    /\ resolutions >= 2
    /\ opts[1].contentExtractor = "custom"
    /\ opts[1].errorExtractor = "default"

====
